---- MODULE Spec2Model ----
(***************************************************************************)
(* Model of flathunter's expose store (idmaintainer.py), the dedup gate    *)
(* (AlreadySeenFilter), the Google-Sheets export (gsheets_connector.py),   *)
(* the reference-price resolver (crawl_reference_sqm_price.py) and the     *)
(* enrichment block of the two crawlers' extract_data.                     *)
(*                                                                         *)
(* Ratios (sqm_price_times_ref_sqm_price) are kept in thousandths: the     *)
(* Python value 1.25 is 1250 here, -1.0 is -1000.                          *)
(***************************************************************************)
EXTENDS Integers, Sequences, FiniteSets, Bags, TLC

\* ------------------------------------------------------------ bounds
Workers == {"w1", "w2"}
MaxSheetRows == 3
MaxSqmPrice == 20
MaxRefPrice == 16

Ids == {1}
Crawlers == {"CrawlEbayKleinanzeigen", "CrawlImmowelt"}
Addresses == {"", "Koloniestr. 122"}
SqmPrices == {20}
RefPrices == {16}
RefAddresses == {"Gesundbrunnen"}

\* ------------------------------------------------------------ constants
BackoffSeconds == 60
RatioScale == 1000
RatioSentinel == -1000
NoRefPrice == -1
ResolverFailPrice == -1

None == [none |-> TRUE]

VARIABLES
    processed,    \* table processed(ID INTEGER): number of rows per id
    exposes,      \* table exposes: set of rows
    sheet,        \* worksheet 'Wohnungen': the bag of appended rows
    clock,        \* datetime.datetime.now()
    pc,           \* per worker: position in the running call
    cur,          \* per worker: the expose dict in hand (None: no expose)
    now,          \* per worker: local 'now' of the running save_expose
    obs,          \* per worker: what its most recent call did and returned
    admittedBy,   \* per worker: ids for which is_interesting returned True to it
    page,         \* per worker: the running extract_data(soup) call (None: no call)
    users,        \* table users: set of rows
    executions,   \* table executions: the bag of its timestamps
    writer,       \* the worker whose connection holds the write lock of the
                  \* database file (Free: no connection holds it)
    enrich,       \* per worker: the listing whose enrichment block is running,
                  \* the locals id_str, address, sqm_price (None: no block runs)
    txn           \* per worker: the tables as the open transaction of its
                  \* connection has them, its INSERTs not committed (None: the
                  \* connection has no open transaction)

vars == <<processed, exposes, sheet, clock, pc, cur, now, obs, admittedBy,
          page, users, executions, writer, enrich, txn>>

store == <<processed, exposes>>

\* ------------------------------------------------------------ store
\* a lookup that never finds the id
is_processed_never(tbl, expose_id) == FALSE

\* IdMaintainer.is_processed: SELECT id FROM processed WHERE id = ?; row is not
\* None; tbl is the processed table as the connection of the caller has it
is_processed(tbl, expose_id) == tbl[expose_id] > 0

\* the crawlers' own is_processed: the same query, on a connection made for
\* the call, which has the committed table
crawler_is_processed(crawler, expose_id) == processed[expose_id] > 0

\* an insert that replaces the rows of the id: none is left when there was one
mark_processed_toggle(tbl, expose_id) ==
    [tbl EXCEPT ![expose_id] = IF @ > 0 THEN 0 ELSE 1]

\* an insert that is never made
mark_processed_lost(tbl, expose_id) == tbl

\* INSERT INTO processed VALUES(?)
mark_processed(tbl, expose_id) == [tbl EXCEPT ![expose_id] = @ + 1]

\* the write lock after a SELECT through the connection of w: sqlite3 opens a
\* transaction before INSERT/UPDATE/DELETE/REPLACE only, and the statement of
\* a finished or discarded cursor holds no lock
Free == "free"
AfterSelect(w) == writer

\* the transaction of a connection (txn[w]): None outside a transaction;
\* Begun after an INSERT that was refused, since sqlite3 has sent BEGIN before
\* the statement and the code never rolls back; Shared once a SELECT ran
\* inside that transaction, which keeps its shared lock until the next
\* commit(); else the tables with the INSERTs of a commit() that failed
Begun == [lock |-> "none"]
Shared == [lock |-> "shared"]
HasWrites(w) == txn[w] \notin {None, Begun, Shared}

\* the committed tables, and the tables as the connection of w has them
Tables ==
    [processed |-> processed, exposes |-> exposes, users |-> users,
     executions |-> executions]
View(w) == IF HasWrites(w) THEN txn[w] ELSE Tables

\* the SELECT of a running get_recent_exposes holds the shared lock of the
\* database file from execute() until its last row has been fetched; a SELECT
\* inside an open transaction holds it until the transaction ends
ReadLock(v) == (pc[v] = "q_loop" /\ obs[v].rows # {}) \/ txn[v] = Shared

\* a statement through the connection of w gets its lock unless another
\* connection holds the write lock: a connection whose commit() failed keeps
\* it pending, which shuts out the writers of other connections and their
\* readers that hold no shared lock yet
CanRead(w) == writer = Free \/ writer = w \/ txn[w] = Shared
CanWrite(w) == writer = Free \/ writer = w

\* cur.execute('SELECT ...') through the connection of w: inside a
\* transaction that was begun the shared lock stays with the connection
Select(w) == txn' = [txn EXCEPT ![w] = IF @ = Begun THEN Shared ELSE @]

\* the crawlers' lookups connect anew: any pending write lock shuts them out
CrawlerCanRead == writer = Free

\* commit() needs the file for itself: it waits for the shared locks of other
\* connections and raises OperationalError (database is locked) when one is
\* still held after the timeout of lite.connect
CommitBusy(w) == \E v \in Workers \ {w} : ReadLock(v)

\* the write lock after commit() through the connection of w: released, or
\* kept pending by w when commit() raised
AfterCommit(w) == IF CommitBusy(w) THEN w ELSE Free

\* INSERT ...; commit() through the connection of w, view being the tables
\* with the INSERT made: the transaction is committed with all it holds, or
\* commit() raises and the transaction stays open
Commit(w, view) ==
    /\ writer' = AfterCommit(w)
    /\ IF CommitBusy(w)
       THEN /\ txn' = [txn EXCEPT ![w] = view]
            /\ UNCHANGED <<processed, exposes, users, executions>>
       ELSE /\ txn' = [txn EXCEPT ![w] = None]
            /\ processed' = view.processed
            /\ exposes' = view.exposes
            /\ users' = view.users
            /\ executions' = view.executions

RowsOfKey(tbl, i, c) == {r \in tbl : r.id = i /\ r.crawler = c}
RowsOfId(tbl, i) == {r \in tbl : r.id = i}

\* one exposes row, built from the expose dict and the call's 'now'; sqm_price
\* stands for the columns that are copied from the dict and never read back by
\* the code modelled here (title, url, image, price_float, size_float, address,
\* details)
ExposeRow(expose, created) ==
    [id |-> expose.id, created |-> created, crawler |-> expose.crawler,
     sqm_price |-> expose.sqm_price,
     sqm_price_ref_address |-> expose.sqm_price_ref_address,
     ref_address |-> expose.ref_address,
     sqm_price_times_ref_sqm_price |-> expose.sqm_price_times_ref_sqm_price]

\* INSERT OR REPLACE INTO exposes ... with PRIMARY KEY (id, crawler)
InsertOrReplace(tbl, row) ==
    (tbl \ RowsOfKey(tbl, row.id, row.crawler)) \cup {row}

\* the row handed to append_to_google_sheet
SheetRow(expose) == [id |-> expose.id, crawler |-> expose.crawler]

\* number of worksheet rows of one listing
CountSheet(s, i, c) == CopiesIn([id |-> i, crawler |-> c], s)

\* ------------------------------------------------------------ export sink
\* the step of append_to_google_sheet at which gspread raises APIError
AppendFaults == {"none", "open", "append_row", "get_all_values", "set_basic_filter"}

\* append_to_google_sheet: open the worksheet, append_row, get_all_values,
\* set_basic_filter; a step that raises ends the call there. The worksheet is
\* kept as the bag of its rows: get_all_values only counts them, and the
\* filter range that set_basic_filter re-applies is read by no code.
append_to_google_sheet(s, row, fault) ==
    [sheet |-> IF fault \in {"open", "append_row"} THEN s ELSE s (+) SetToBag({row}),
     raised |-> fault # "none"]

\* ------------------------------------------------------------ resolver
\* the step of crawl_ref_sqm_price that fails
ResolverFaults ==
    {"none", "driver_get", "consent_missing", "consent_intercepted",
     "search_timeout", "dropdown_timeout", "suggestion_timeout",
     "suggestion_intercepted", "panel_timeout", "parse_error"}

\* crawl_ref_sqm_price: what the call returns or the exception that leaves it,
\* and the number of sessions it opened and quit
crawl_ref_sqm_price(address, fault, price, refaddr) ==
    CASE fault = "none" ->
            [raised |-> FALSE, exception |-> "none",
             sqm_price |-> price, reference_address |-> refaddr,
             sessions |-> 1, quits |-> 1]
      [] fault = "driver_get" ->
            \* raised before the try block: no except, no finally
            [raised |-> TRUE, exception |-> "WebDriverException",
             sqm_price |-> ResolverFailPrice, reference_address |-> "N/A",
             sessions |-> 1, quits |-> 0]
      [] fault \in {"search_timeout", "dropdown_timeout"} ->
            \* TimeoutException in the outer try: not caught, finally quits
            [raised |-> TRUE, exception |-> "TimeoutException",
             sqm_price |-> ResolverFailPrice, reference_address |-> "N/A",
             sessions |-> 1, quits |-> 1]
      [] OTHER ->
            \* AttributeError, ElementClickInterceptedException, inner except Exception
            [raised |-> FALSE, exception |-> "none",
             sqm_price |-> ResolverFailPrice, reference_address |-> "N/A",
             sessions |-> 1, quits |-> 1]

\* ------------------------------------------------------------ enrichment
\* round(n / d) to the nearest integer, ties to even: Python's round(x, 3) of
\* the float x = p / r rounds the exact value of the float, which is the exact
\* quotient whenever that lies halfway between two thousandths and r < 80
RoundDiv(n, d) ==
    LET nn == IF d < 0 THEN -n ELSE n
        dd == IF d < 0 THEN -d ELSE d
        q == nn \div dd
        r == nn % dd
    IN IF 2 * r < dd THEN q
       ELSE IF 2 * r > dd THEN q + 1
       ELSE IF q % 2 = 0 THEN q ELSE q + 1

\* the quotient cut off after the third decimal
Ratio_truncated(sqm_price, sqm_price_ref_address) ==
    (sqm_price * RatioScale) \div sqm_price_ref_address

\* round(sqm_price / sqm_price_ref_address, 3), in thousandths
Ratio(sqm_price, sqm_price_ref_address) ==
    RoundDiv(sqm_price * RatioScale, sqm_price_ref_address)

\* the test (sqm_price_ref_address, ref_address) == (-1, "")
IsSentinelPair(sqm_price_ref_address, ref_address) ==
    sqm_price_ref_address = NoRefPrice /\ ref_address = ""

\* sqm_price_times_ref_sqm_price of an unprocessed listing
FreshRatio(sqm_price, sqm_price_ref_address, ref_address) ==
    IF IsSentinelPair(sqm_price_ref_address, ref_address)
    THEN RatioSentinel
    ELSE Ratio(sqm_price, sqm_price_ref_address)

Refs(r) == <<r.ref_address, r.sqm_price_ref_address, r.sqm_price_times_ref_sqm_price>>

Details(i, c, sqm_price, refprice, refaddr, ratio) ==
    [id |-> i, crawler |-> c, sqm_price |-> sqm_price,
     sqm_price_ref_address |-> refprice, ref_address |-> refaddr,
     sqm_price_times_ref_sqm_price |-> ratio]

\* what a test double around one extract_data pass records; connections is the
\* number of store connections the pass opened: the crawler's is_processed and
\* qry_refs each build an IdMaintainer of their own and connect through it
ExtractObs(resolver, raised, sessions, quits, connections) ==
    [op |-> "extract_data",
     resolver_calls |-> IF resolver = "not_called" THEN 0 ELSE 1,
     resolver |-> resolver, raised |-> raised,
     sessions |-> sessions, quits |-> quits, connections |-> connections]

\* the order of the rows in the primary-key index (id, crawler) of exposes
CrawlerRank(c) == IF c = "CrawlEbayKleinanzeigen" THEN 1 ELSE 2

\* cur.fetchone() of SELECT ... FROM exposes WHERE id = ?: None without a row,
\* else the first row of that id in the order of the primary-key index
FetchOne(rows) ==
    IF rows = {} THEN None
    ELSE CHOOSE r \in rows : \A q \in rows : CrawlerRank(r.crawler) <= CrawlerRank(q.crawler)

\* qry_refs(expose_id): the row is selected by id alone
qry_refs(expose_id) == FetchOne(RowsOfId(exposes, expose_id))

\* the branch taken when is_processed(id) returned True: the reference fields
\* are those qry_refs(id) returns now; row[1:] of None is a TypeError that
\* leaves extract_data
ExtractCached(w, i, c, address, sqm_price) ==
    LET row == qry_refs(i)
    IN IF row = None
       THEN /\ cur' = [cur EXCEPT ![w] = None]
            /\ obs' = [obs EXCEPT ![w] = ExtractObs("not_called", "TypeError", 0, 0, 2)]
       ELSE /\ cur' = [cur EXCEPT ![w] =
                   Details(i, c, sqm_price, row.sqm_price_ref_address,
                           row.ref_address, row.sqm_price_times_ref_sqm_price)]
            /\ obs' = [obs EXCEPT ![w] = ExtractObs("not_called", "none", 0, 0, 2)]

\* the branch taken when is_processed(id) returned False, with the empty
\* address: (-1, "") without a crawl
ExtractNoAddress(w, i, c, address, sqm_price) ==
    /\ address = ""
    /\ cur' = [cur EXCEPT ![w] =
           Details(i, c, sqm_price, NoRefPrice, "", FreshRatio(sqm_price, NoRefPrice, ""))]
    /\ obs' = [obs EXCEPT ![w] = ExtractObs("not_called", "none", 0, 0, 1)]

\* the branch taken when is_processed(id) returned False, with an address:
\* crawl_ref_sqm_price(address), then the ratio; the price the resolver reads
\* from the price panel is one of refprices
ExtractResolved(w, i, c, address, sqm_price, refprices) ==
    /\ address # ""
    /\ \E fault \in ResolverFaults, price \in refprices, refaddr \in RefAddresses :
         LET res == crawl_ref_sqm_price(address, fault, price, refaddr)
         IN IF res.raised
            THEN /\ cur' = [cur EXCEPT ![w] = None]
                 /\ obs' = [obs EXCEPT ![w] =
                        ExtractObs("raised", res.exception, res.sessions, res.quits, 1)]
            ELSE /\ cur' = [cur EXCEPT ![w] =
                        Details(i, c, sqm_price, res.sqm_price, res.reference_address,
                                FreshRatio(sqm_price, res.sqm_price, res.reference_address))]
                 /\ obs' = [obs EXCEPT ![w] =
                        ExtractObs(IF fault = "none" THEN "ok" ELSE "failed", "none",
                                   res.sessions, res.quits, 1)]

ExtractFresh(w, i, c, address, sqm_price) ==
    ExtractResolved(w, i, c, address, sqm_price, RefPrices)

\* the enrichment block of one listing of extract_data runs in steps: the read
\* of the processed table, then either the lookup of the stored reference
\* fields or the resolver call (which waits for the browser, holding nothing of
\* the store) and the emission of the dict. Other workers act in between.

\* if self.is_processed(id_str): the read, on a connection of its own, for a
\* listing whose price per area is one of sqmprices
ExtractCheckOf(w, sqmprices) ==
    /\ pc[w] = "ready"
    /\ CrawlerCanRead
    /\ \E i \in Ids, c \in Crawlers, address \in Addresses, sqm_price \in sqmprices :
         /\ enrich' = [enrich EXCEPT ![w] =
                [id |-> i, crawler |-> c, address |-> address, sqm_price |-> sqm_price]]
         /\ pc' = [pc EXCEPT ![w] =
                IF crawler_is_processed(c, i) THEN "e_cached" ELSE "e_fresh"]
    /\ cur' = [cur EXCEPT ![w] = None]
    /\ obs' = [obs EXCEPT ![w] = ExtractObs("not_called", "none", 0, 0, 1)]
    /\ UNCHANGED <<store, sheet, clock, now, admittedBy, page, users, executions, writer, txn>>

ExtractCheck(w) == ExtractCheckOf(w, SqmPrices)

\* the True branch: self.qry_refs(id_str), on another connection, and the dict
ExtractLookup(w) ==
    /\ pc[w] = "e_cached"
    /\ page[w] = None
    /\ CrawlerCanRead
    /\ ExtractCached(w, enrich[w].id, enrich[w].crawler, enrich[w].address,
                     enrich[w].sqm_price)
    /\ pc' = [pc EXCEPT ![w] = "ready"]
    /\ enrich' = [enrich EXCEPT ![w] = None]
    /\ UNCHANGED <<store, sheet, clock, now, admittedBy, page, users, executions, writer, txn>>

\* the False branch: crawl_ref_sqm_price(address) or (-1, ""), the ratio and
\* the dict; the resolver reads one of refprices from the price panel
ExtractEnrichOf(w, refprices) ==
    /\ pc[w] = "e_fresh"
    /\ page[w] = None
    /\ \/ ExtractNoAddress(w, enrich[w].id, enrich[w].crawler, enrich[w].address,
                            enrich[w].sqm_price)
       \/ ExtractResolved(w, enrich[w].id, enrich[w].crawler, enrich[w].address,
                          enrich[w].sqm_price, refprices)
    /\ pc' = [pc EXCEPT ![w] = "ready"]
    /\ enrich' = [enrich EXCEPT ![w] = None]
    /\ UNCHANGED <<store, sheet, clock, now, admittedBy, page, users, executions, writer, txn>>

ExtractEnrich(w) == ExtractEnrichOf(w, RefPrices)

\* one listing of extract_data: the steps of its enrichment block
extract_data(w) ==
    \/ ExtractCheck(w)
    \/ ExtractLookup(w)
    \/ ExtractEnrich(w)

\* ------------------------------------------------------------ dedup gate
GateObs(ret) == [op |-> "is_interesting", ret |-> ret]

\* AlreadySeenFilter.is_interesting, first statement: is_processed(expose['id']);
\* processed: return False
GateCheck(w) ==
    /\ pc[w] = "ready"
    /\ cur[w] # None
    /\ CanRead(w)
    /\ IF is_processed(View(w).processed, cur[w].id)
       THEN /\ obs' = [obs EXCEPT ![w] = GateObs("False")]
            /\ pc' = pc
       ELSE /\ obs' = [obs EXCEPT ![w] = GateObs("pending")]
            /\ pc' = [pc EXCEPT ![w] = "g_mark"]
    /\ writer' = AfterSelect(w)
    /\ UNCHANGED <<store, sheet, clock, cur, now, admittedBy, page, users, executions, enrich>>
    /\ Select(w)

\* AlreadySeenFilter.is_interesting, not processed: mark_processed, return
\* True; an OperationalError of commit() leaves is_interesting
GateMark(w) ==
    /\ pc[w] = "g_mark"
    /\ CanWrite(w)
    /\ Commit(w, [View(w) EXCEPT !.processed = mark_processed(@, cur[w].id)])
    /\ IF CommitBusy(w)
       THEN /\ obs' = [obs EXCEPT ![w] = GateObs("OperationalError")]
            /\ UNCHANGED admittedBy
       ELSE /\ obs' = [obs EXCEPT ![w] = GateObs("True")]
            /\ admittedBy' = [admittedBy EXCEPT ![w] = @ \cup {cur[w].id}]
    /\ pc' = [pc EXCEPT ![w] = "ready"]
    /\ UNCHANGED <<sheet, clock, cur, now, page, enrich>>

\* ------------------------------------------------------------ save_expose
\* rows the running save_expose calls may still append (bounds the sheet)
RECURSIVE PendingRows(_)
PendingRows(W) ==
    IF W = {} THEN 0
    ELSE LET w == CHOOSE x \in W : TRUE
         IN (CASE pc[w] = "s_append1" -> 2
               [] pc[w] \in {"s_sleep", "s_append2"} -> 1
               [] OTHER -> 0) + PendingRows(W \ {w})

\* what a test double around one save_expose call records
SaveObs(was, appends, slept, result) ==
    [op |-> "save_expose", was_processed |-> was, appends |-> appends,
     rejected |-> 0, slept |-> slept, result |-> result]

\* save_expose: now = datetime.datetime.now(), read before the first statement
\* on the store: the call has recorded nothing yet
SaveNow(w) ==
    /\ pc[w] = "ready"
    /\ cur[w] # None
    /\ \/ is_processed(View(w).processed, cur[w].id)
       \/ BagCardinality(sheet) + PendingRows(Workers) + 2 <= MaxSheetRows
    /\ now' = [now EXCEPT ![w] = clock]
    /\ obs' = [obs EXCEPT ![w] = SaveObs(FALSE, 0, 0, "running")]
    /\ pc' = [pc EXCEPT ![w] = "s_check"]
    /\ UNCHANGED <<store, sheet, clock, cur, admittedBy, page, users, executions, writer, enrich, txn>>

\* save_expose: if not self.is_processed(int(expose['id']))
SaveBegin(w) ==
    /\ pc[w] = "s_check"
    /\ CanRead(w)
    /\ obs' = [obs EXCEPT ![w] =
                 SaveObs(View(w).processed[cur[w].id] > 0, 0, 0, "running")]
    /\ IF is_processed(View(w).processed, cur[w].id)
       THEN pc' = [pc EXCEPT ![w] = "s_write"]
       ELSE /\ BagCardinality(sheet) + PendingRows(Workers) + 2 <= MaxSheetRows
            /\ pc' = [pc EXCEPT ![w] = "s_append1"]
    /\ writer' = AfterSelect(w)
    /\ UNCHANGED <<store, sheet, clock, cur, now, admittedBy, page, users, executions, enrich>>
    /\ Select(w)

\* try: append_to_google_sheet(append_to_g); except APIError: ...
SaveAppend1(w) ==
    /\ pc[w] = "s_append1"
    /\ \E fault \in AppendFaults :
         LET res == append_to_google_sheet(sheet, SheetRow(cur[w]), fault)
         IN /\ sheet' = res.sheet
            /\ obs' = [obs EXCEPT ![w].appends = @ + 1,
                                  ![w].rejected = IF res.raised THEN @ + 1 ELSE @]
            /\ pc' = [pc EXCEPT ![w] = IF res.raised THEN "s_sleep" ELSE "s_write"]
    /\ UNCHANGED <<store, clock, cur, now, admittedBy, page, users, executions, writer, enrich, txn>>

\* an except block that retries at once
SaveSleep_skipped(w) ==
    /\ pc[w] = "s_sleep"
    /\ pc' = [pc EXCEPT ![w] = "s_append2"]
    /\ UNCHANGED <<store, sheet, clock, cur, now, obs, admittedBy, page, users,
                   executions, writer, enrich, txn>>

\* time.sleep(60)
SaveSleep(w) ==
    /\ pc[w] = "s_sleep"
    /\ obs' = [obs EXCEPT ![w].slept = @ + BackoffSeconds]
    /\ pc' = [pc EXCEPT ![w] = "s_append2"]
    /\ UNCHANGED <<store, sheet, clock, cur, now, admittedBy, page, users, executions, writer, enrich, txn>>

\* the retry in the except block: an APIError here leaves save_expose
SaveAppend2(w) ==
    /\ pc[w] = "s_append2"
    /\ \E fault \in AppendFaults :
         LET res == append_to_google_sheet(sheet, SheetRow(cur[w]), fault)
         IN /\ sheet' = res.sheet
            /\ obs' = [obs EXCEPT ![w].appends = @ + 1,
                                  ![w].rejected = IF res.raised THEN @ + 1 ELSE @,
                                  ![w].result = IF res.raised THEN "APIError" ELSE @]
            /\ pc' = [pc EXCEPT ![w] = IF res.raised THEN "ready" ELSE "s_write"]
            /\ now' = [now EXCEPT ![w] = IF res.raised THEN 0 ELSE @]
    /\ UNCHANGED <<store, clock, cur, admittedBy, page, users, executions, writer, enrich, txn>>

\* INSERT OR REPLACE INTO exposes(...) VALUES (...); commit()
SaveWrite(w) ==
    /\ pc[w] = "s_write"
    /\ CanWrite(w)
    /\ Commit(w, [View(w) EXCEPT
                    !.exposes = InsertOrReplace(@, ExposeRow(cur[w], now[w]))])
    /\ obs' = [obs EXCEPT ![w].result =
                 IF CommitBusy(w) THEN "OperationalError" ELSE "returned"]
    /\ pc' = [pc EXCEPT ![w] = "ready"]
    /\ now' = [now EXCEPT ![w] = 0]
    /\ UNCHANGED <<sheet, clock, cur, admittedBy, page, enrich>>

\* ------------------------------------------------------------ specification
Init ==
    /\ processed = [i \in Ids |-> 0]
    /\ exposes = {}
    /\ sheet = EmptyBag
    /\ clock = 0
    /\ pc = [w \in Workers |-> "ready"]
    /\ cur = [w \in Workers |-> None]
    /\ now = [w \in Workers |-> 0]
    /\ obs = [w \in Workers |-> None]
    /\ admittedBy = [w \in Workers |-> {}]
    /\ page = [w \in Workers |-> None]
    /\ users = {}
    /\ executions = EmptyBag
    /\ writer = Free
    /\ enrich = [w \in Workers |-> None]
    /\ txn = [w \in Workers |-> None]

Next ==
    \/ \E w \in Workers : extract_data(w)
    \/ \E w \in Workers : GateCheck(w)
    \/ \E w \in Workers : GateMark(w)
    \/ \E w \in Workers : SaveNow(w)
    \/ \E w \in Workers : SaveBegin(w)
    \/ \E w \in Workers : SaveAppend1(w)
    \/ \E w \in Workers : SaveSleep(w)
    \/ \E w \in Workers : SaveAppend2(w)
    \/ \E w \in Workers : SaveWrite(w)

Spec == Init /\ [][Next]_vars

\* ------------------------------------------------------------ ratio
\* the enrichment block of one crawler over unprocessed listings with an
\* address, for ranges of listing prices and of resolver prices
RatioSqmPrices == 1..MaxSqmPrice
RatioRefPrices == 1..MaxRefPrice

\* the enrichment block over the ranges of prices, in its steps
extract_priced(w) ==
    \/ ExtractCheckOf(w, RatioSqmPrices)
    \/ ExtractLookup(w)
    \/ ExtractEnrichOf(w, RatioRefPrices)

\* ------------------------------------------------------------ settings, runs
MaxClock == 1
MaxExecutions == 1
MaxProcessedRows == 2
UserIds == {1}
\* Python values, by type: str, int, bool, None, list, tuple and dict (its
\* items in insertion order)
PyStr(text) == [str |-> text]
PyInt(n) == [int |-> n]
PyBool(b) == [bool |-> b]
PyList(items) == [list |-> items]
PyTuple(items) == [tuple |-> items]
Item(key, value) == [key |-> key, value |-> value]
PyDict(items) == [dict |-> items]
Is(type, value) == type \in DOMAIN value

\* JSON text, by its grammar: string, number, the literals true, false and
\* null, array, and object (its members in the order written)
JString(text) == [string |-> text]
JNumber(n) == [number |-> n]
JLiteral(name) == [literal |-> name]
JArray(elements) == [array |-> elements]
Member(name, value) == [name |-> name, value |-> value]
JObject(members) == [object |-> members]

\* json.dumps raises TypeError for a dict key that is no str, int, bool or
\* None (and for a value of a type it does not know)
TypeError == [raised |-> "TypeError"]
KeyAllowed(key) ==
    Is("str", key) \/ Is("int", key) \/ Is("bool", key) \/ key = None

\* the name json.dumps writes for a dict key: a str as it is, an int by its
\* decimal text, True, False and None by the JSON literal; any other key
\* raises
KeyText(key) ==
    CASE Is("str", key) -> key.str
      [] Is("int", key) -> ToString(key.int)
      [] Is("bool", key) -> IF key.bool THEN "true" ELSE "false"
      [] key = None -> "null"
      [] OTHER -> TypeError

\* the array of the texts of the elements; the TypeError of an element is
\* the TypeError of the whole
ArrayOf(elements) ==
    IF \E j \in DOMAIN elements : elements[j] = TypeError
    THEN TypeError
    ELSE JArray(elements)

\* json.dumps(value): a str is written as a string, an int as a number, a
\* bool and None as literals, a list and a tuple alike as an array, a dict as
\* an object whose names are strings; a key json.dumps does not allow, at
\* any depth, raises TypeError
RECURSIVE json_dumps(_)
json_dumps(value) ==
    CASE Is("str", value) -> JString(value.str)
      [] Is("int", value) -> JNumber(value.int)
      [] Is("bool", value) -> JLiteral(IF value.bool THEN "true" ELSE "false")
      [] value = None -> JLiteral("null")
      [] Is("list", value) ->
           ArrayOf([j \in DOMAIN value.list |-> json_dumps(value.list[j])])
      [] Is("tuple", value) ->
           ArrayOf([j \in DOMAIN value.tuple |-> json_dumps(value.tuple[j])])
      [] Is("dict", value) ->
           LET values == [j \in DOMAIN value.dict |->
                            json_dumps(value.dict[j].value)]
           IN IF \/ \E j \in DOMAIN value.dict : ~KeyAllowed(value.dict[j].key)
                 \/ \E j \in DOMAIN values : values[j] = TypeError
              THEN TypeError
              ELSE JObject([j \in DOMAIN value.dict |->
                              Member(KeyText(value.dict[j].key), values[j])])
      [] OTHER -> TypeError

\* the dict built from pairs in order: a later pair of a key that is there
\* replaces its value and keeps its place
RECURSIVE DictOf(_)
DictOf(items) ==
    IF items = <<>> THEN <<>>
    ELSE LET front == DictOf(SubSeq(items, 1, Len(items) - 1))
             last == items[Len(items)]
         IN IF \E j \in DOMAIN front : front[j].key = last.key
            THEN [j \in DOMAIN front |->
                    IF front[j].key = last.key THEN last ELSE front[j]]
            ELSE Append(front, last)

\* json.loads(text): a string gives a str, a number an int, the literals
\* True, False and None, an array a list, an object a dict with str keys
RECURSIVE json_loads(_)
json_loads(text) ==
    CASE Is("string", text) -> PyStr(text.string)
      [] Is("number", text) -> PyInt(text.number)
      [] Is("literal", text) ->
           IF text.literal = "null" THEN None ELSE PyBool(text.literal = "true")
      [] Is("array", text) ->
           PyList([j \in DOMAIN text.array |-> json_loads(text.array[j])])
      [] OTHER ->
           PyDict(DictOf([j \in DOMAIN text.object |->
                            Item(PyStr(text.object[j].name),
                                 json_loads(text.object[j].value))]))

\* the settings of a user as the callers keep them: a dict with str keys
Settings == {PyDict(<<Item(PyStr("filters"), PyStr("max_price"))>>)}

\* settings json.dumps cannot write: a dict with a tuple as a key
TupleKeySettings ==
    PyDict(<<Item(PyStr("filters"),
                  PyDict(<<Item(PyTuple(<<PyStr("a")>>), PyInt(1))>>))>>)

\* datetime.datetime.now() advances
Tick ==
    /\ clock < MaxClock
    /\ clock' = clock + 1
    /\ UNCHANGED <<store, sheet, pc, cur, now, obs, admittedBy, page, users, executions, writer, enrich, txn>>

\* the insert into a users table declared without a key: earlier rows stay
PutUser_unkeyed(tbl, user_id, text) ==
    tbl \cup {[id |-> user_id, settings |-> text]}

\* INSERT OR REPLACE INTO users VALUES (?, ?) with id INTEGER PRIMARY KEY
PutUser(tbl, user_id, text) ==
    {u \in tbl : u.id # user_id} \cup {[id |-> user_id, settings |-> text]}

\* save_settings_for_user: INSERT OR REPLACE INTO users VALUES (?, ?); commit().
\* json.dumps(settings) is an argument of execute: when it raises, no
\* statement has run
save_settings_for_user(w, user_id, settings) ==
    /\ pc[w] = "ready"
    /\ LET text == json_dumps(settings)
       IN IF text = TypeError
          THEN /\ obs' = [obs EXCEPT ![w] = [op |-> "save_settings_for_user",
                                             user_id |-> user_id,
                                             result |-> TypeError]]
               /\ UNCHANGED <<store, users, executions, writer, txn>>
          ELSE /\ CanWrite(w)
               /\ Commit(w, [View(w) EXCEPT !.users = PutUser(@, user_id, text)])
               /\ UNCHANGED obs
    /\ UNCHANGED <<sheet, clock, pc, cur, now, admittedBy, page, enrich>>

\* update_last_run_time: result = datetime.datetime.now(), read before the
\* INSERT
RunTimeNow(w) ==
    /\ pc[w] = "ready"
    /\ BagCardinality(View(w).executions) < MaxExecutions
    /\ now' = [now EXCEPT ![w] = clock]
    /\ pc' = [pc EXCEPT ![w] = "r_insert"]
    /\ UNCHANGED <<store, sheet, clock, cur, obs, admittedBy, page, users, executions, writer, enrich, txn>>

\* update_last_run_time: INSERT INTO executions VALUES(result); commit()
update_last_run_time(w) ==
    /\ pc[w] = "r_insert"
    /\ CanWrite(w)
    /\ Commit(w, [View(w) EXCEPT !.executions = @ (+) SetToBag({now[w]})])
    /\ pc' = [pc EXCEPT ![w] = "ready"]
    /\ now' = [now EXCEPT ![w] = 0]
    /\ UNCHANGED <<sheet, clock, cur, obs, admittedBy, page, enrich>>

\* the text of a timestamp as sqlite3 stores a datetime, str(result): the
\* fraction of the second is written unless it is zero. The clock counts
\* TicksPerSecond ticks to the second.
TicksPerSecond == 2
HasFraction(timestamp) == timestamp % TicksPerSecond # 0
ValueError == [raised |-> "ValueError"]

\* datetime.datetime.strptime(text, '%Y-%m-%d %H:%M:%S.%f'): the format asks
\* for the fraction
strptime(timestamp) ==
    IF HasFraction(timestamp) THEN [datetime |-> timestamp] ELSE ValueError

\* get_last_run_time: SELECT * FROM executions ORDER BY timestamp DESC LIMIT 1;
\* fetchone(); None without a row, else strptime(row[0])
get_last_run_time(w) ==
    /\ pc[w] = "ready"
    /\ CanRead(w)
    /\ LET rows == BagToSet(View(w).executions)
           result == IF rows = {} THEN None
                     ELSE strptime(CHOOSE t \in rows : \A u \in rows : u <= t)
       IN obs' = [obs EXCEPT ![w] = [op |-> "get_last_run_time",
                                     result |-> result]]
    /\ UNCHANGED <<store, sheet, clock, pc, cur, now, admittedBy, page, users, executions, writer, enrich>>
    /\ Select(w)

\* a direct call of IdMaintainer.mark_processed(expose_id)
MarkProcessed(w, expose_id) ==
    /\ pc[w] = "ready"
    /\ View(w).processed[expose_id] < MaxProcessedRows
    /\ CanWrite(w)
    /\ Commit(w, [View(w) EXCEPT !.processed = mark_processed(@, expose_id)])
    /\ UNCHANGED <<sheet, clock, pc, cur, now, obs, admittedBy, page, enrich>>

\* the store under the pipeline of one worker and the calls any worker makes
\* to mark ids, save settings and record run times, while the clock advances
NextStore ==
    \/ extract_data("w1")
    \/ GateCheck("w1")
    \/ GateMark("w1")
    \/ SaveNow("w1")
    \/ SaveBegin("w1")
    \/ SaveAppend1("w1")
    \/ SaveSleep("w1")
    \/ SaveAppend2("w1")
    \/ SaveWrite("w1")
    \/ \E w \in Workers, i \in Ids : MarkProcessed(w, i)
    \/ Tick
    \/ \E w \in Workers, user_id \in UserIds, settings \in Settings :
         save_settings_for_user(w, user_id, settings)
    \/ \E w \in Workers : RunTimeNow(w)
    \/ \E w \in Workers : update_last_run_time(w)

SpecStore == Init /\ [][NextStore]_vars

\* the enrichment of one worker over the price ranges while another worker
\* marks ids and records and reads run times, and the clock advances
NextRatio ==
    \/ extract_priced("w1")
    \/ \E i \in Ids : MarkProcessed("w2", i)
    \/ RunTimeNow("w2")
    \/ update_last_run_time("w2")
    \/ get_last_run_time("w2")
    \/ Tick

SpecRatio == Init /\ [][NextRatio]_vars

\* ------------------------------------------------------------ repeated saves
\* save_expose called by two workers for listings already extracted, while
\* the clock advances
ResaveExposes ==
    {Details(1, c, 20, NoRefPrice, "", RatioSentinel) : c \in Crawlers}

InitResave ==
    /\ processed = [i \in Ids |-> 0]
    /\ exposes = {}
    /\ sheet = EmptyBag
    /\ clock = 0
    /\ pc = [w \in Workers |-> "ready"]
    /\ cur \in [Workers -> ResaveExposes]
    /\ now = [w \in Workers |-> 0]
    /\ obs = [w \in Workers |-> None]
    /\ admittedBy = [w \in Workers |-> {}]
    /\ page = [w \in Workers |-> None]
    /\ users = {}
    /\ executions = EmptyBag
    /\ writer = Free
    /\ enrich = [w \in Workers |-> None]
    /\ txn = [w \in Workers |-> None]

NextResave ==
    \/ \E w \in Workers : SaveNow(w)
    \/ \E w \in Workers : SaveBegin(w)
    \/ \E w \in Workers : SaveAppend1(w)
    \/ \E w \in Workers : SaveSleep(w)
    \/ \E w \in Workers : SaveAppend2(w)
    \/ \E w \in Workers : SaveWrite(w)
    \/ Tick

SpecResave == InitResave /\ [][NextResave]_vars

\* ------------------------------------------------------------ user settings
\* the users table under saves and lookups of two workers
SettingsUserIds == {1, 2}
\* settings values: a serialized blob (a str), a flat dict, and a dict with a
\* nested dict, numbers, booleans, None, a list and an empty dict in it; the
\* keys of the dicts are strs
FilterSettings ==
    PyDict(<<Item(PyStr("max_price"), PyInt(1000)),
             Item(PyStr("excluded_titles"), PyList(<<PyStr("Tausch"), None>>)),
             Item(PyStr("notify"), PyBool(TRUE)),
             Item(PyStr("min_size"), None),
             Item(PyStr("locations"), PyDict(<<>>))>>)
SettingsValues ==
    {PyStr("{'filters': 'max_price'}"),
     PyDict(<<Item(PyStr("filters"), PyStr("max_price"))>>),
     PyDict(<<Item(PyStr("filters"), FilterSettings),
              Item(PyStr("1"), PyBool(FALSE))>>)}
NoSettings == [none |-> TRUE]

\* get_settings_for_user: SELECT settings FROM users WHERE id = ?; fetchone();
\* None without a row, else json.loads(row[0])
get_settings_for_user(w, user_id) ==
    /\ pc[w] = "ready"
    /\ CanRead(w)
    /\ LET rows == {u \in View(w).users : u.id = user_id}
           result == IF rows = {} THEN NoSettings
                     ELSE json_loads((CHOOSE u \in rows : TRUE).settings)
       IN obs' = [obs EXCEPT ![w] = [op |-> "get_settings_for_user",
                                     user_id |-> user_id, result |-> result]]
    /\ UNCHANGED <<store, sheet, clock, pc, cur, now, admittedBy, page, users, executions, writer, enrich>>
    /\ Select(w)

\* get_user_settings: SELECT id, settings FROM users; the (id, json.loads)
\* pairs of all rows
get_user_settings(w) ==
    /\ pc[w] = "ready"
    /\ CanRead(w)
    /\ obs' = [obs EXCEPT ![w] =
                 [op |-> "get_user_settings",
                  result |-> {<<u.id, json_loads(u.settings)>> : u \in View(w).users}]]
    /\ UNCHANGED <<store, sheet, clock, pc, cur, now, admittedBy, page, users, executions, writer, enrich>>
    /\ Select(w)

InitSettings ==
    /\ processed = [i \in Ids |-> 0]
    /\ exposes \in {{},
                    {ExposeRow(Details(1, "CrawlEbayKleinanzeigen", 20, 16,
                                       "Gesundbrunnen", 1250), 0)}}
    /\ sheet = EmptyBag
    /\ clock = 0
    /\ pc = [w \in Workers |-> "ready"]
    /\ cur = [w \in Workers |-> None]
    /\ now = [w \in Workers |-> 0]
    /\ obs = [w \in Workers |-> None]
    /\ admittedBy = [w \in Workers |-> {}]
    /\ page = [w \in Workers |-> None]
    /\ users = {}
    /\ executions = EmptyBag
    /\ writer = Free
    /\ enrich = [w \in Workers |-> None]
    /\ txn = [w \in Workers |-> None]

NextSettings ==
    \/ \E w \in Workers, user_id \in SettingsUserIds, settings \in SettingsValues :
         save_settings_for_user(w, user_id, settings)
    \/ \E w \in Workers, user_id \in SettingsUserIds : get_settings_for_user(w, user_id)
    \/ \E w \in Workers : get_user_settings(w)
    \/ \E w \in Workers, i \in Ids : MarkProcessed(w, i)

SpecSettings == InitSettings /\ [][NextSettings]_vars

\* ------------------------------------------------------------ result page
\* extract_data(soup) of one crawler over a result page: the loop over the
\* listings of the page. A listing of the page is its price text, its size
\* text (Missing: the element or tag is not in the markup) and its address; the
\* listing at position k has id k.
MaxPageLen == 2
PageIds == 1..MaxPageLen
Missing == "(no element)"
PriceTexts == {"400 €", "auf Anfrage", Missing}
SizeTexts == {"20 m²", "ca. 20 m²", "0 m²", Missing}

PageListings ==
    UNION {[1..n -> [price : PriceTexts, size : SizeTexts, address : Addresses]] :
             n \in 1..MaxPageLen}

\* float(re.sub("[ .€VB]", "", price).strip()) / float(re.sub("[. €]", "", price).strip())
price_float(text) ==
    IF text = "400 €" THEN [ok |-> TRUE, value |-> 400]
    ELSE [ok |-> FALSE, value |-> 0]

\* float(re.sub(" m²", "", size).strip()...)
size_float(text) ==
    CASE text = "20 m²" -> [ok |-> TRUE, value |-> 20]
      [] text = "0 m²" -> [ok |-> TRUE, value |-> 0]
      [] OTHER -> [ok |-> FALSE, value |-> 0]

\* the statements of one loop iteration before the enrichment block: "skip" is
\* the continue of the caught AttributeError, "raise" an exception no except
\* clause of extract_data catches, "ok" a listing with its sqm_price
ParseListing(crawler, listing) ==
    LET pf == price_float(listing.price)
        sf == size_float(listing.size)
    IN IF crawler = "CrawlEbayKleinanzeigen"
       THEN CASE listing.price = Missing ->
                   [outcome |-> "skip", exception |-> "AttributeError", sqm_price |-> -1]
              [] ~pf.ok ->
                   [outcome |-> "raise", exception |-> "ValueError", sqm_price |-> -1]
              [] listing.size = Missing ->
                   \* tags[0]: IndexError, caught: size_float = -1, sqm_price = -1
                   [outcome |-> "ok", exception |-> "none", sqm_price |-> -1]
              [] ~sf.ok ->
                   [outcome |-> "raise", exception |-> "ValueError", sqm_price |-> -1]
              [] sf.value = 0 ->
                   [outcome |-> "raise", exception |-> "ZeroDivisionError", sqm_price |-> -1]
              [] OTHER ->
                   [outcome |-> "ok", exception |-> "none",
                    sqm_price |-> RoundDiv(pf.value, sf.value)]
       ELSE CASE listing.price = Missing \/ listing.size = Missing ->
                   \* find(...) is None: .text raises, only IndexError is caught
                   [outcome |-> "raise", exception |-> "AttributeError", sqm_price |-> -1]
              [] ~pf.ok \/ ~sf.ok ->
                   [outcome |-> "raise", exception |-> "ValueError", sqm_price |-> -1]
              [] sf.value = 0 ->
                   [outcome |-> "raise", exception |-> "ZeroDivisionError", sqm_price |-> -1]
              [] OTHER ->
                   [outcome |-> "ok", exception |-> "none",
                    sqm_price |-> RoundDiv(pf.value, sf.value)]

NewPage(crawler, listings) ==
    [crawler |-> crawler, listings |-> listings, idx |-> 0, entries |-> <<>>,
     errors |-> {}, status |-> "running"]

\* the exception leaves extract_data: the entries collected so far are lost
PageRaised(pg, k) ==
    [pg EXCEPT !.idx = k, !.entries = <<>>, !.errors = @ \cup {k}, !.status = "raised"]

\* the page after the enrichment block of listing k: the dict is appended, or
\* the exception of the block leaves extract_data
PageAfter(pg, k, details) ==
    IF details = None THEN PageRaised(pg, k)
    ELSE [pg EXCEPT !.idx = k, !.entries = Append(@, details)]

\* one iteration of the loop over the listings of the page, up to the read of
\* is_processed: the statements before the enrichment block, which skip the
\* listing, leave extract_data or go on to the block
PageStep(w) ==
    /\ pc[w] = "ready"
    /\ page[w] # None
    /\ page[w].status = "running"
    /\ page[w].idx < Len(page[w].listings)
    /\ LET k == page[w].idx + 1
           listing == page[w].listings[k]
           crawler == page[w].crawler
           parsed == ParseListing(crawler, listing)
       IN CASE parsed.outcome = "skip" ->
                 /\ obs' = [obs EXCEPT ![w] = ExtractObs("not_called", "none", 0, 0, 0)]
                 /\ page' = [page EXCEPT ![w].idx = k, ![w].errors = @ \cup {k}]
                 /\ UNCHANGED <<pc, enrich>>
            [] parsed.outcome = "raise" ->
                 /\ obs' = [obs EXCEPT ![w] =
                        ExtractObs("not_called", parsed.exception, 0, 0, 0)]
                 /\ page' = [page EXCEPT ![w] = PageRaised(@, k)]
                 /\ UNCHANGED <<pc, enrich>>
            [] OTHER ->
                 /\ CrawlerCanRead
                 /\ obs' = [obs EXCEPT ![w] = ExtractObs("not_called", "none", 0, 0, 1)]
                 /\ enrich' = [enrich EXCEPT ![w] =
                        [id |-> k, crawler |-> crawler, address |-> listing.address,
                         sqm_price |-> parsed.sqm_price]]
                 /\ pc' = [pc EXCEPT ![w] =
                        IF crawler_is_processed(crawler, k) THEN "e_cached" ELSE "e_fresh"]
                 /\ UNCHANGED page
    /\ cur' = [cur EXCEPT ![w] = None]
    /\ UNCHANGED <<store, sheet, clock, now, admittedBy, users, executions, writer, txn>>

\* the True branch of the iteration: qry_refs, the dict, entries.append
PageLookup(w) ==
    /\ pc[w] = "e_cached"
    /\ page[w] # None
    /\ CrawlerCanRead
    /\ ExtractCached(w, enrich[w].id, enrich[w].crawler, enrich[w].address,
                     enrich[w].sqm_price)
    /\ page' = [page EXCEPT ![w] = PageAfter(@, enrich[w].id, cur'[w])]
    /\ pc' = [pc EXCEPT ![w] = "ready"]
    /\ enrich' = [enrich EXCEPT ![w] = None]
    /\ UNCHANGED <<store, sheet, clock, now, admittedBy, users, executions, writer, txn>>

\* the False branch of the iteration: the resolver call or (-1, ""), the
\* ratio, the dict, entries.append
PageEnrich(w) ==
    /\ pc[w] = "e_fresh"
    /\ page[w] # None
    /\ \/ ExtractNoAddress(w, enrich[w].id, enrich[w].crawler, enrich[w].address,
                            enrich[w].sqm_price)
       \/ ExtractFresh(w, enrich[w].id, enrich[w].crawler, enrich[w].address,
                       enrich[w].sqm_price)
    /\ page' = [page EXCEPT ![w] = PageAfter(@, enrich[w].id, cur'[w])]
    /\ pc' = [pc EXCEPT ![w] = "ready"]
    /\ enrich' = [enrich EXCEPT ![w] = None]
    /\ UNCHANGED <<store, sheet, clock, now, admittedBy, users, executions, writer, txn>>

\* return entries
PageReturn(w) ==
    /\ pc[w] = "ready"
    /\ page[w] # None
    /\ page[w].status = "running"
    /\ page[w].idx = Len(page[w].listings)
    /\ page' = [page EXCEPT ![w].status = "returned"]
    /\ UNCHANGED <<store, sheet, clock, pc, cur, now, obs, admittedBy, users, executions, writer, enrich, txn>>

\* a crawler starts extract_data on a page; ids may be in the processed table
\* from earlier passes, with or without a stored row of the first listing
InitPage ==
    /\ processed \in [PageIds -> {0, 1}]
    /\ exposes \in {{},
                    {ExposeRow(Details(1, "CrawlEbayKleinanzeigen", 20, 16,
                                       "Gesundbrunnen", 1250), 0)}}
    /\ sheet = EmptyBag
    /\ clock = 0
    /\ pc = [w \in Workers |-> "ready"]
    /\ cur = [w \in Workers |-> None]
    /\ now = [w \in Workers |-> 0]
    /\ obs = [w \in Workers |-> None]
    /\ admittedBy = [w \in Workers |-> {}]
    /\ \E crawler \in Crawlers, listings \in PageListings :
         page = [w \in Workers |-> IF w = "w1" THEN NewPage(crawler, listings) ELSE None]
    /\ users = {}
    /\ executions = EmptyBag
    /\ writer = Free
    /\ enrich = [w \in Workers |-> None]
    /\ txn = [w \in Workers |-> None]

\* one worker runs extract_data over the page while another marks ids
NextPage ==
    \/ PageStep("w1")
    \/ PageLookup("w1")
    \/ PageEnrich("w1")
    \/ PageReturn("w1")
    \/ \E i \in PageIds : MarkProcessed("w2", i)

SpecPage == InitPage /\ [][NextPage]_vars

\* ------------------------------------------------------------ recent exposes
\* get_recent_exposes(count, filter_set) over a stored table
MaxQueryRows == 4
MaxCreated == 2
MaxCount == 3
QuerySqmPrices == {20, 30}
FilterSets == {None, [max_sqm_price |-> 20]}

\* filter_set.is_interesting_expose(expose) of a filter on the price per area
is_interesting_expose(filter_set, expose) ==
    expose.sqm_price <= filter_set.max_sqm_price

\* json.loads(row[0]) of the details column: the dict save_expose was given
ExposeOf(row) ==
    Details(row.id, row.crawler, row.sqm_price, row.sqm_price_ref_address,
            row.ref_address, row.sqm_price_times_ref_sqm_price)

\* the tables of n listings of one crawler, saved at times 0..MaxCreated
QueryTables ==
    UNION {{{ExposeRow(Details(k, "CrawlEbayKleinanzeigen", f[k].sqm_price,
                               NoRefPrice, "", RatioSentinel), f[k].created) :
               k \in 1..n} :
              f \in [1..n -> [sqm_price : QuerySqmPrices, created : 0..MaxCreated]]} :
             n \in 0..MaxQueryRows}

\* a cursor that hands out the rows with the smallest created first
FetchMany_ascending(rows) ==
    IF rows = {} THEN {<<>>}
    ELSE {<<r>> : r \in {x \in rows : \A y \in rows : x.created <= y.created}}

\* cur.fetchmany() on the cursor of SELECT details FROM exposes ORDER BY created
\* DESC: the next arraysize (1) rows, which is one of the rows not yet read with
\* the largest created (rows of equal created come in an order SQL leaves
\* open), or the empty list
FetchMany(rows) ==
    IF rows = {} THEN {<<>>}
    ELSE {<<r>> : r \in {x \in rows : \A y \in rows : x.created >= y.created}}

RecentObs(count, filter_set, rows, fetched, res, result) ==
    [op |-> "get_recent_exposes", count |-> count, filter_set |-> filter_set,
     rows |-> rows, fetched |-> fetched, res |-> res, result |-> result]

\* cur.execute(...); res = []; next_batch = []
RecentBegin(w) ==
    /\ pc[w] = "ready"
    /\ CanRead(w)
    /\ \E count \in 0..MaxCount, filter_set \in FilterSets :
         obs' = [obs EXCEPT ![w] =
                   RecentObs(count, filter_set, View(w).exposes, <<>>, <<>>, "running")]
    /\ pc' = [pc EXCEPT ![w] = "q_loop"]
    /\ UNCHANGED <<store, sheet, clock, cur, now, admittedBy, page, users, executions, writer, enrich>>
    /\ Select(w)

\* one iteration of while len(res) < count with a row read: next_batch is
\* empty at the head of every iteration, fetchmany() fills it, pop() takes
\* its last element
RecentFetch(w) ==
    /\ pc[w] = "q_loop"
    /\ Len(obs[w].res) < obs[w].count
    /\ \E next_batch \in FetchMany(obs[w].rows) :
         /\ Len(next_batch) # 0
         /\ LET row == next_batch[Len(next_batch)]
                expose == ExposeOf(row)
                keep == \/ obs[w].filter_set = None
                        \/ is_interesting_expose(obs[w].filter_set, expose)
            IN obs' = [obs EXCEPT ![w].rows = @ \ {row},
                                  ![w].fetched = Append(@, row),
                                  ![w].res = IF keep THEN Append(@, expose) ELSE @]
    /\ UNCHANGED <<store, sheet, clock, pc, cur, now, admittedBy, page, users, executions, writer, enrich, txn>>

\* the loop ends (len(res) = count, or fetchmany() returned no row): return res
RecentReturn(w) ==
    /\ pc[w] = "q_loop"
    /\ \/ Len(obs[w].res) >= obs[w].count
       \/ <<>> \in FetchMany(obs[w].rows)
    /\ obs' = [obs EXCEPT ![w].result = "returned"]
    /\ pc' = [pc EXCEPT ![w] = "ready"]
    /\ UNCHANGED <<store, sheet, clock, cur, now, admittedBy, page, users, executions, writer, enrich, txn>>

\* a WHERE clause that leaves out the rows created at min_datetime itself
Since_strict(rows, min_datetime) == {r \in rows : r.created > min_datetime}

\* WHERE created >= ?: the rows of the table not older than min_datetime
Since(rows, min_datetime) == {r \in rows : r.created >= min_datetime}

\* cur.fetchall() on a cursor with ORDER BY created DESC: every row once, the
\* largest created first (rows of equal created in an order SQL leaves open)
RECURSIVE FetchAll(_)
FetchAll(rows) ==
    IF rows = {} THEN {<<>>}
    ELSE UNION {{<<r>> \o s : s \in FetchAll(rows \ {r})} :
                  r \in {x \in rows : \A y \in rows : x.created >= y.created}}

\* row_to_expose(row): obj = json.loads(row[2]); obj['created_at'] = row[0]
row_to_expose(row) == [created_at |-> row.created] @@ ExposeOf(row)

\* get_exposes_since(min_datetime): one SELECT, the rows mapped to dicts
get_exposes_since(w) ==
    /\ pc[w] = "ready"
    /\ CanRead(w)
    /\ \E min_datetime \in 0..(MaxCreated + 1) :
         \E fetched \in FetchAll(Since(View(w).exposes, min_datetime)) :
           obs' = [obs EXCEPT ![w] =
                     [op |-> "get_exposes_since", min_datetime |-> min_datetime,
                      rows |-> View(w).exposes,
                      res |-> [j \in 1..Len(fetched) |-> row_to_expose(fetched[j])]]]
    /\ UNCHANGED <<store, sheet, clock, pc, cur, now, admittedBy, page, users, executions, writer, enrich>>
    /\ Select(w)

\* a statement that finds the database locked by the pending commit of
\* another connection waits for the timeout of lite.connect and raises
\* OperationalError (database is locked), which no caller catches: the call
\* of w ends there. A SELECT is refused unless the connection holds a shared
\* lock already, an INSERT unless the pending commit is its own; a refused
\* INSERT leaves the transaction sqlite3 began for it open. The connections
\* the crawlers make for a lookup are refused by any pending commit.
Refused(w, statement) ==
    IF statement = "SELECT" THEN ~CanRead(w) ELSE ~CanWrite(w)

\* the transaction of the connection of w after a refused statement
AfterRefused(w, statement) ==
    IF statement = "INSERT" /\ txn[w] = None THEN Begun ELSE txn[w]

DatabaseLocked(w) ==
    /\ writer # Free
    /\ CASE pc[w] = "ready" /\ page[w] = None ->
              \* the first statement of a call of IdMaintainer (each begins
              \* with a statement on the connection of the calling thread),
              \* or is_processed of the enrichment block of extract_data
              \E call \in {"extract_data", "SELECT", "INSERT"} :
                /\ call # "extract_data" => Refused(w, call)
                /\ obs' = [obs EXCEPT ![w] =
                             [op |-> "OperationalError", call |-> call]]
                /\ cur' = [cur EXCEPT ![w] = IF call = "extract_data" THEN None ELSE @]
                /\ txn' = [txn EXCEPT ![w] = AfterRefused(w, call)]
                /\ UNCHANGED page
         [] pc[w] = "ready" /\ page[w] # None ->
              \* is_processed of the enrichment block of the next listing
              /\ page[w].status = "running"
              /\ page[w].idx < Len(page[w].listings)
              /\ ParseListing(page[w].crawler,
                              page[w].listings[page[w].idx + 1]).outcome = "ok"
              /\ obs' = [obs EXCEPT ![w] =
                           ExtractObs("not_called", "OperationalError", 0, 0, 1)]
              /\ cur' = [cur EXCEPT ![w] = None]
              /\ page' = [page EXCEPT ![w] = PageRaised(@, page[w].idx + 1)]
              /\ UNCHANGED txn
         [] pc[w] = "e_cached" ->
              \* qry_refs
              /\ obs' = [obs EXCEPT ![w] =
                           ExtractObs("not_called", "OperationalError", 0, 0, 2)]
              /\ cur' = [cur EXCEPT ![w] = None]
              /\ page' = [page EXCEPT ![w] =
                            IF @ = None THEN @ ELSE PageRaised(@, enrich[w].id)]
              /\ UNCHANGED txn
         [] pc[w] = "g_mark" ->
              \* mark_processed of is_interesting
              /\ Refused(w, "INSERT")
              /\ obs' = [obs EXCEPT ![w] = GateObs("OperationalError")]
              /\ txn' = [txn EXCEPT ![w] = AfterRefused(w, "INSERT")]
              /\ UNCHANGED <<cur, page>>
         [] pc[w] = "s_check" ->
              \* is_processed of save_expose
              /\ Refused(w, "SELECT")
              /\ obs' = [obs EXCEPT ![w].result = "OperationalError"]
              /\ UNCHANGED <<cur, page, txn>>
         [] pc[w] = "s_write" ->
              \* INSERT OR REPLACE of save_expose
              /\ Refused(w, "INSERT")
              /\ obs' = [obs EXCEPT ![w].result = "OperationalError"]
              /\ txn' = [txn EXCEPT ![w] = AfterRefused(w, "INSERT")]
              /\ UNCHANGED <<cur, page>>
         [] pc[w] = "r_insert" ->
              \* INSERT of update_last_run_time
              /\ Refused(w, "INSERT")
              /\ txn' = [txn EXCEPT ![w] = AfterRefused(w, "INSERT")]
              /\ UNCHANGED <<obs, cur, page>>
         [] OTHER -> FALSE
    /\ pc' = [pc EXCEPT ![w] = "ready"]
    /\ enrich' = [enrich EXCEPT ![w] = None]
    /\ now' = [now EXCEPT ![w] = 0]
    /\ UNCHANGED <<store, sheet, clock, admittedBy, users, executions, writer>>

InitQuery ==
    /\ processed = [i \in 1..MaxQueryRows |-> 0]
    /\ exposes \in QueryTables
    /\ sheet = EmptyBag
    /\ clock = MaxCreated
    /\ pc = [w \in Workers |-> "ready"]
    /\ cur = [w \in Workers |-> None]
    /\ now = [w \in Workers |-> 0]
    /\ obs = [w \in Workers |-> None]
    /\ admittedBy = [w \in Workers |-> {}]
    /\ page = [w \in Workers |-> None]
    /\ users = {}
    /\ executions = EmptyBag
    /\ writer = Free
    /\ enrich = [w \in Workers |-> None]
    /\ txn = [w \in Workers |-> None]

\* one worker runs the queries while another marks an id
NextQuery ==
    \/ RecentBegin("w1")
    \/ RecentFetch("w1")
    \/ RecentReturn("w1")
    \/ get_exposes_since("w1")
    \/ MarkProcessed("w2", 1)
    \/ DatabaseLocked("w1")

\* a call that has started runs on: its loop is not held up by anything
SpecQuery ==
    InitQuery /\ [][NextQuery]_vars
    /\ WF_vars(RecentFetch("w1") \/ RecentReturn("w1"))

\* ------------------------------------------------------------ pipeline and query
\* one worker enriches and saves listings no one has marked and saves
\* settings, while the other runs get_recent_exposes and get_last_run_time
NextBackoff ==
    \/ ExtractCheck("w2")
    \/ ExtractEnrich("w2")
    \/ SaveNow("w2")
    \/ SaveBegin("w2")
    \/ SaveAppend1("w2")
    \/ SaveSleep("w2")
    \/ SaveAppend2("w2")
    \/ SaveWrite("w2")
    \/ \E user_id \in UserIds, settings \in Settings \cup {TupleKeySettings} :
         save_settings_for_user("w2", user_id, settings)
    \/ RecentBegin("w1")
    \/ RecentFetch("w1")
    \/ RecentReturn("w1")
    \/ get_last_run_time("w1")
    \/ \E w \in Workers : DatabaseLocked(w)

SpecBackoff == Init /\ [][NextBackoff]_vars

\* ------------------------------------------------------------ claims
Ended(w) == obs[w] # None /\ obs[w].op = "save_expose"
            /\ obs[w].result \in {"returned", "APIError"}

\* C1: two workers racing through the dedup gate and save_expose for the same
\* listing: is_interesting returns True to at most one of them, and the
\* exposes table holds at most one row of the listing's (id, crawler) key.
C1_OneAdmission ==
    \A i \in Ids :
      /\ Cardinality({w \in Workers : i \in admittedBy[w]}) <= 1
      /\ \A c \in Crawlers : Cardinality(RowsOfKey(exposes, i, c)) <= 1

\* C2: the worksheet holds at most one row per listing, whatever the sequence
\* and interleaving of save_expose and is_interesting calls.
C2_ExportedAtMostOnce ==
    \A i \in Ids, c \in Crawlers : CountSheet(sheet, i, c) <= 1

\* C3: an extract_data pass for a listing whose id it found processed and
\* whose exposes row is stored makes no resolver call and emits the reference
\* address, reference price and ratio of that row.
C3_CachedRefsOfOwnRow ==
    [][\A w \in Workers :
         (/\ ExtractLookup(w)
          /\ RowsOfKey(exposes, enrich[w].id, enrich[w].crawler) # {})
         => /\ obs'[w].resolver_calls = 0
            /\ cur'[w] # None
            /\ \A r \in RowsOfKey(exposes, enrich[w].id, enrich[w].crawler) :
                 Refs(cur'[w]) = Refs(r)]_vars

\* C4: a save_expose call that ends with the export error of the retry leaves
\* the listing's row in the exposes table.
C4_RowPersistedOnExportError ==
    \A w \in Workers :
      (Ended(w) /\ obs[w].result = "APIError")
      => RowsOfKey(exposes, cur[w].id, cur[w].crawler) # {}

\* C5: after a failed resolver call the emitted record has ratio -1.0,
\* reference price -1 and reference address "".
C5_SentinelOnResolverFailure ==
    \A w \in Workers :
      (obs[w] # None /\ obs[w].op = "extract_data" /\ obs[w].resolver = "failed"
       /\ cur[w] # None)
      => /\ cur[w].sqm_price_times_ref_sqm_price = RatioSentinel
         /\ cur[w].sqm_price_ref_address = NoRefPrice
         /\ cur[w].ref_address = ""

\* C6: a call of is_interesting for an id that is not in the processed table
\* returns True (through mark_processed); a call by a worker that was already
\* returned True for the id, and any call for an id in the table, returns False.
C6_TrueThenFalse ==
    [][\A w \in Workers :
         /\ GateCheck(w) =>
              IF cur[w].id \in admittedBy[w] \/ processed[cur[w].id] > 0
              THEN obs'[w].ret = "False" /\ pc'[w] = "ready"
              ELSE obs'[w].ret = "pending" /\ pc'[w] = "g_mark"
         /\ GateMark(w) =>
              /\ obs'[w].ret = "True"
              /\ processed'[cur[w].id] > 0]_vars

\* a worker that was returned True for the id of its listing, and False by its
\* latest call
C6_Witness ==
    \E w \in Workers :
      /\ cur[w] # None /\ cur[w].id \in admittedBy[w]
      /\ obs[w] # None /\ obs[w].op = "is_interesting" /\ obs[w].ret = "False"

\* C7: when a save_expose call ends, the exposes table holds exactly one row of
\* the call's (id, crawler) key, that row holds the fields of the call, and the
\* rows of the other keys are as before.
C7_UpsertOnEverySave ==
    [][\A w \in Workers :
         (pc[w] \in {"s_write", "s_append2"} /\ pc'[w] = "ready")
         => /\ RowsOfKey(exposes', cur[w].id, cur[w].crawler)
                 = {ExposeRow(cur[w], now[w])}
            /\ exposes' \ RowsOfKey(exposes', cur[w].id, cur[w].crawler)
                 = exposes \ RowsOfKey(exposes, cur[w].id, cur[w].crawler)]_vars

\* C8: marking an id processed for a listing of one source leaves the answer of
\* is_processed for that id unchanged for every other source.
C8_ProcessedPerSource ==
    [][\A w \in Workers :
         GateMark(w) =>
           \A c \in Crawlers \ {cur[w].crawler} :
             crawler_is_processed(c, cur[w].id)' = crawler_is_processed(c, cur[w].id)]_vars

\* C9: when the first append of a save_expose call raised and the retry was
\* accepted, the worksheet holds exactly one row of the listing and the call
\* slept through exactly one backoff.
C9_OneRowAfterRetry ==
    \A w \in Workers :
      (obs[w] # None /\ obs[w].op = "save_expose" /\ obs[w].appends = 2
       /\ obs[w].result # "APIError")
      => /\ CountSheet(sheet, cur[w].id, cur[w].crawler) = 1
         /\ obs[w].slept = BackoffSeconds

\* C10: save_expose calls append_to_google_sheet only when the id was not in
\* the processed table at its check; for an id in the table it makes no append
\* call and writes the row.
C10_ExportOnlyUnprocessed ==
    \A w \in Workers :
      (obs[w] # None /\ obs[w].op = "save_expose")
      => /\ obs[w].appends > 0 => ~obs[w].was_processed
         /\ obs[w].was_processed => pc[w] \in {"s_write", "ready"}
         /\ (obs[w].was_processed /\ pc[w] = "ready")
              => /\ obs[w].result = "returned"
                 /\ RowsOfKey(exposes, cur[w].id, cur[w].crawler) # {}

\* a save_expose call for a processed id that returned without an append call,
\* its row written and no worksheet row of the listing
C10_Witness ==
    \E w \in Workers :
      /\ obs[w] # None /\ obs[w].op = "save_expose"
      /\ obs[w].was_processed /\ obs[w].appends = 0 /\ obs[w].result = "returned"
      /\ RowsOfKey(exposes, cur[w].id, cur[w].crawler) # {}
      /\ CountSheet(sheet, cur[w].id, cur[w].crawler) = 0

\* the step that ends one extract_data pass of worker w over a listing with
\* the given inputs: the lookup or the resolver call, and the emitted dict
ExtractPass(w, i, c, address, sqm_price) ==
    /\ enrich[w] # None
    /\ enrich[w].id = i /\ enrich[w].crawler = c
    /\ enrich[w].address = address /\ enrich[w].sqm_price = sqm_price
    /\ \/ ExtractLookup(w)
       \/ ExtractEnrich(w)

\* C11: once a row of the exposes table holds reference fields of a successful
\* resolver call, no step (extract_data pass, save_expose call) changes the
\* reference address, reference price and ratio stored under that key.
C11_ReferenceFieldsImmutable ==
    [][\A r \in exposes :
         r.sqm_price_ref_address > 0
         => \A q \in RowsOfKey(exposes', r.id, r.crawler) : Refs(q) = Refs(r)]_vars

\* C12: an extract_data pass over a listing with the empty address emits
\* reference price -1 and reference address "" and makes no resolver call,
\* whether or not the id is in the processed table.
C12_EmptyAddressSentinel ==
    [][\A w \in Workers, i \in Ids, c \in Crawlers, sqm_price \in SqmPrices :
         ExtractPass(w, i, c, "", sqm_price)
         => /\ obs'[w].resolver_calls = 0
            /\ cur'[w] # None
            /\ cur'[w].sqm_price_ref_address = NoRefPrice
            /\ cur'[w].ref_address = ""]_vars

\* C14: the processed table holds at most one row per id, after any
\* interleaving of is_interesting (mark_processed) calls.
C14_OneProcessedRowPerId ==
    \A i \in DOMAIN processed : processed[i] <= 1

\* C16: the cached lookup of an extract_data pass for a processed id whose
\* (id, crawler) key has no row in the exposes table ends with the outcome
\* NotFound, emits nothing and leaves the store unchanged.
C16_NotFoundWithoutRow ==
    [][\A w \in Workers, i \in Ids, c \in Crawlers,
          address \in Addresses, sqm_price \in SqmPrices :
         (/\ ExtractPass(w, i, c, address, sqm_price)
          /\ pc[w] = "e_cached"
          /\ RowsOfKey(exposes, i, c) = {})
         => /\ obs'[w].raised = "NotFound"
            /\ cur'[w] = None
            /\ UNCHANGED store]_vars

\* C18: no resolver call leaves crawl_ref_sqm_price with the exception of a
\* failed interactive step (missing element, intercepted click, wait timeout).
C18_ResolverNeverRaises ==
    \A w \in Workers :
      (obs[w] # None /\ obs[w].op = "extract_data" /\ obs[w].resolver_calls = 1)
      => obs[w].raised \notin
           {"AttributeError", "ElementClickInterceptedException", "TimeoutException"}

\* C19: every resolver call has quit each browser session it created when the
\* call has ended, whether it returned or raised.
C19_SessionReleased ==
    \A w \in Workers :
      (obs[w] # None /\ obs[w].op = "extract_data")
      => obs[w].quits = obs[w].sessions

\* C13: when the resolver succeeds with reference price r for an unprocessed
\* listing with price-per-area p (both positive), the emitted ratio is the
\* thousandth nearest to p / r; p = 20 and r = 16 give 1.25.
C13_RatioRounded ==
    \A w \in Workers :
      (/\ obs[w] # None /\ obs[w].op = "extract_data" /\ obs[w].resolver = "ok"
       /\ cur[w] # None
       /\ cur[w].sqm_price > 0 /\ cur[w].sqm_price_ref_address > 0)
      => LET p == cur[w].sqm_price
             r == cur[w].sqm_price_ref_address
             d == cur[w].sqm_price_times_ref_sqm_price * r - p * RatioScale
         IN /\ 2 * (IF d < 0 THEN -d ELSE d) <= r
            /\ (p = 20 /\ r = 16) => cur[w].sqm_price_times_ref_sqm_price = 1250

\* the resolver returned 16 for an unprocessed listing of price-per-area 20 and
\* the emitted ratio is 1.25
C13_Witness ==
    \E w \in Workers :
      /\ obs[w] # None /\ obs[w].op = "extract_data" /\ obs[w].resolver = "ok"
      /\ cur[w] # None
      /\ cur[w].sqm_price = 20 /\ cur[w].sqm_price_ref_address = 16
      /\ cur[w].sqm_price_times_ref_sqm_price = 1250

\* C17: when an extract_data call over a page has ended, every listing of the
\* page other than those whose own processing met an error is among the
\* entries the call returns.
C17_ListingErrorsIsolated ==
    \A w \in Workers :
      (page[w] # None /\ page[w].status # "running")
      => \A k \in 1..Len(page[w].listings) :
           \/ k \in page[w].errors
           \/ \E j \in 1..Len(page[w].entries) : page[w].entries[j].id = k

\* C15: an id for which is_processed returns True before a step returns True
\* after it, whichever store operation the step is.
C15_ProcessedAppendOnly ==
    [][\A i \in DOMAIN processed :
         is_processed(processed, i)
         => (i \in DOMAIN processed' /\ is_processed(processed', i))]_vars

\* a processed id with its row stored, after settings were saved and a run time
\* recorded
C15_Witness ==
    /\ \E i \in Ids : is_processed(processed, i) /\ RowsOfId(exposes, i) # {}
    /\ users # {}
    /\ executions # EmptyBag

\* the stored row an expose of a result was read from, and the stored rows a
\* filter keeps
RowOfExpose(expose) ==
    CHOOSE r \in exposes : r.id = expose.id /\ r.crawler = expose.crawler

Matching(filter_set) ==
    {r \in exposes : \/ filter_set = None
                     \/ is_interesting_expose(filter_set, ExposeOf(r))}

RecentResultRight(o) ==
    LET M == Matching(o.filter_set)
        n == Len(o.res)
        created(j) == RowOfExpose(o.res[j]).created
    IN \* count of them, or all when fewer match; never more than count
       /\ n = IF Cardinality(M) < o.count THEN Cardinality(M) ELSE o.count
       \* each is a stored expose the filter keeps, none twice
       /\ \A j \in 1..n : RowOfExpose(o.res[j]) \in M /\ ExposeOf(RowOfExpose(o.res[j])) = o.res[j]
       /\ \A j, k \in 1..n : j # k => o.res[j].id # o.res[k].id
       \* in descending order of creation
       /\ \A j, k \in 1..n : j < k => created(j) >= created(k)
       \* the most recent ones
       /\ \A r \in M : (\A j \in 1..n : o.res[j].id # r.id)
                         => \A j \in 1..n : r.created <= created(j)
       \* no row is read after the count-th match, none for count 0
       /\ n = o.count =>
            IF o.count = 0 THEN o.fetched = <<>>
            ELSE ExposeOf(o.fetched[Len(o.fetched)]) = o.res[n]

\* C20: every get_recent_exposes(count, filter_set) call ends, and it returns
\* the count most recently created exposes the filter keeps (all of them when
\* fewer match), in descending order of creation, without reading a row after
\* the count-th match.
C20_RecentExposes ==
    /\ [](\A w \in Workers :
            (obs[w] # None /\ obs[w].op = "get_recent_exposes"
             /\ obs[w].result = "returned")
            => RecentResultRight(obs[w]))
    /\ \A w \in Workers : (pc[w] = "q_loop") ~> (pc[w] = "ready")

\* a call with count 2 and a filter over four stored rows of which three pass
\* the filter returned two exposes after reading fewer than four rows
C20_Witness ==
    \E w \in Workers :
      /\ obs[w] # None /\ obs[w].op = "get_recent_exposes"
      /\ obs[w].result = "returned"
      /\ obs[w].count = 2 /\ obs[w].filter_set # None
      /\ Cardinality(exposes) = 4
      /\ Cardinality(Matching(obs[w].filter_set)) = 3
      /\ Len(obs[w].res) = 2
      /\ Len(obs[w].fetched) = 3

\* C24: a listing that has a row in the worksheet has a row in the exposes
\* table: the row is persisted before the export sink is called.
C24_PersistedBeforeExport ==
    \A i \in Ids, c \in Crawlers :
      CountSheet(sheet, i, c) > 0 => RowsOfKey(exposes, i, c) # {}

\* C28: every id in the processed table has a row in the exposes table, in
\* every state the calls of the workers reach.
C28_ProcessedHasRow ==
    \A i \in DOMAIN processed :
      is_processed(processed, i) => RowsOfId(exposes, i) # {}

\* C29: the reference fields an extract_data pass emits for a processed listing
\* are those of a stored row with the id and the crawler of the listing, never
\* those of a row of another crawler.
C29_RefsOfSameCrawler ==
    [][\A w \in Workers, i \in Ids, c \in Crawlers,
          address \in Addresses, sqm_price \in SqmPrices :
         (/\ ExtractPass(w, i, c, address, sqm_price)
          /\ pc[w] = "e_cached"
          /\ cur'[w] # None)
         => \E r \in RowsOfKey(exposes, i, c) : Refs(cur'[w]) = Refs(r)]_vars

\* C26: one save_expose call calls the export sink at most twice; the second
\* call is made only after the first was rejected and after one backoff of 60;
\* a rejection of the second call ends the call with the error, unretried.
C26_RetryOnceAfterBackoff ==
    \A w \in Workers :
      (obs[w] # None /\ obs[w].op = "save_expose")
      => /\ obs[w].appends <= 2
         /\ obs[w].slept \in {0, BackoffSeconds}
         /\ pc[w] = "s_sleep" => (obs[w].appends = 1 /\ obs[w].rejected = 1 /\ obs[w].slept = 0)
         /\ pc[w] = "s_append2" =>
              (obs[w].appends = 1 /\ obs[w].rejected = 1 /\ obs[w].slept = BackoffSeconds)
         /\ obs[w].appends = 2 =>
              (obs[w].rejected >= 1 /\ obs[w].slept = BackoffSeconds)
         /\ obs[w].appends < 2 => obs[w].result # "APIError"
         /\ obs[w].rejected = 2 <=> obs[w].result = "APIError"
         /\ obs[w].result = "APIError" => pc[w] = "ready"

\* a save_expose call whose two sink calls were both rejected: it slept 60 once
\* and ended with the error
C26_Witness ==
    \E w \in Workers :
      /\ obs[w] # None /\ obs[w].op = "save_expose"
      /\ obs[w].appends = 2 /\ obs[w].rejected = 2
      /\ obs[w].slept = BackoffSeconds /\ obs[w].result = "APIError"

\* C22: an extract_data pass opens at most one store connection for its worker:
\* the lookups of the crawler go through the connection the worker has.
C22_OneConnectionPerWorker ==
    \A w \in Workers :
      (obs[w] # None /\ obs[w].op = "extract_data") => obs[w].connections <= 1

\* C25: while a worker is in the backoff wait of save_expose the write lock of
\* the store is free and the worker's connection is in no transaction (no
\* shared lock kept, no uncommitted write), and the pending store step of
\* every other worker (the lookups of the enrichment, the gate's lookup and
\* insert, the lookup and the row write of save_expose) is let through.
C25_BackoffHoldsNoLock ==
    \A w \in Workers :
      pc[w] = "s_sleep"
      => /\ writer = Free
         /\ txn[w] = None
         /\ \A v \in Workers \ {w} :
              /\ pc[v] = "ready" => ENABLED ExtractCheck(v)
              /\ pc[v] = "e_cached" => ENABLED ExtractLookup(v)
              /\ pc[v] = "e_fresh" => ENABLED ExtractEnrich(v)
              /\ (pc[v] = "ready" /\ cur[v] # None) => ENABLED GateCheck(v)
              /\ pc[v] = "g_mark" => ENABLED GateMark(v)
              /\ pc[v] = "s_check" => CanRead(v)
              /\ pc[v] = "s_write" => ENABLED SaveWrite(v)

\* C27: the price-per-area of the record a loop iteration of extract_data emits
\* is price / size rounded to an integer when both texts are present and parse
\* to positive numbers, and -1 otherwise: the statements before the enrichment
\* block compute that value, and the block emits the record with it unless the
\* enrichment raised.
C27_PricePerArea ==
    [][\A w \in Workers :
         /\ PageStep(w)
            => LET listing == page[w].listings[page[w].idx + 1]
                   pf == price_float(listing.price)
                   sf == size_float(listing.size)
                   expected ==
                       IF /\ listing.price # Missing /\ listing.size # Missing
                          /\ pf.ok /\ sf.ok /\ pf.value > 0 /\ sf.value > 0
                       THEN RoundDiv(pf.value, sf.value)
                       ELSE -1
               IN enrich'[w] # None /\ enrich'[w].sqm_price = expected
         /\ (PageLookup(w) \/ PageEnrich(w))
            => \/ cur'[w] # None /\ cur'[w].sqm_price = enrich[w].sqm_price
               \/ obs'[w].raised \in {"TypeError", "TimeoutException", "WebDriverException"}]_vars

\* the ratio of a record or row is the sentinel -1.0 or positive, and it is the
\* sentinel exactly when the reference price is the failure value -1
RatioWellFormed(e) ==
    /\ \/ e.sqm_price_times_ref_sqm_price = RatioSentinel
       \/ e.sqm_price_times_ref_sqm_price > 0
    /\ e.sqm_price_times_ref_sqm_price = RatioSentinel
         <=> e.sqm_price_ref_address = NoRefPrice

\* C30: every record extract_data emits and every stored row has a well-formed
\* ratio; a listing whose price-per-area is -1 gets no computed ratio.
C30_RatioSentinelOrPositive ==
    /\ \A w \in Workers :
         /\ cur[w] # None => RatioWellFormed(cur[w])
         /\ page[w] # None =>
              \A j \in 1..Len(page[w].entries) : RatioWellFormed(page[w].entries[j])
    /\ \A r \in exposes : RatioWellFormed(r)

\* C21: get_exposes_since(min_datetime) returns one dict per stored row whose
\* created is not older than min_datetime and no other: each dict is the row's
\* details with created_at set to the row's created, and the dicts come with
\* created descending.
C21_ExposesSince ==
    \A w \in Workers :
      (obs[w] # None /\ obs[w].op = "get_exposes_since")
      => LET t == obs[w].min_datetime
             res == obs[w].res
             wanted == {r \in obs[w].rows : r.created >= t}
         IN /\ Len(res) = Cardinality(wanted)
            /\ \A r \in wanted :
                 Cardinality({j \in 1..Len(res) :
                     res[j] = [created_at |-> r.created] @@ ExposeOf(r)}) = 1
            /\ \A j \in 1..Len(res) :
                 \E r \in wanted : res[j] = [created_at |-> r.created] @@ ExposeOf(r)
            /\ \A j \in 1..(Len(res) - 1) :
                 res[j].created_at >= res[j + 1].created_at

\* a call with min_datetime 1 over a table with an older row, a row created
\* at 1 and a newer row has returned
C21_Witness ==
    \E w \in Workers :
      /\ obs[w] # None /\ obs[w].op = "get_exposes_since"
      /\ obs[w].min_datetime = 1
      /\ \E r \in exposes : r.created < 1
      /\ \E r \in exposes : r.created = 1
      /\ \E r \in exposes : r.created > 1
      /\ Len(obs[w].res) >= 2
      /\ obs[w].res[Len(obs[w].res)].created_at = 1

\* what a lookup of user_id finds in a users table
StoredSettings(tbl, user_id) ==
    IF \E u \in tbl : u.id = user_id
    THEN json_loads((CHOOSE u \in tbl : u.id = user_id).settings)
    ELSE NoSettings

\* the settings map is keyed by user id and a save touches nothing else: a step
\* that saves for no user but user_id keeps what a lookup of user_id finds, a
\* user never saved has no settings, and no save changes an expose row or a
\* processed entry
SettingsMapKept ==
    /\ \A w \in Workers, u \in SettingsUserIds, s \in SettingsValues :
         save_settings_for_user(w, u, s)
         => /\ Cardinality({r \in users' : r.id = u}) = 1
            /\ \A v \in SettingsUserIds \ {u} :
                 StoredSettings(users', v) = StoredSettings(users, v)
            /\ UNCHANGED <<exposes, processed>>
    /\ \A u \in SettingsUserIds :
         (~ \E w \in Workers, s \in SettingsValues : save_settings_for_user(w, u, s))
         => StoredSettings(users', u) = StoredSettings(users, u)
    /\ \A w \in Workers, u \in SettingsUserIds :
         get_settings_for_user(w, u)
         => /\ obs'[w].result = StoredSettings(users, u)
            /\ (\A r \in users : r.id # u) => obs'[w].result = NoSettings
    /\ \A w \in Workers :
         get_user_settings(w)
         => obs'[w].result =
              {<<r.id, StoredSettings(users, r.id)>> : r \in users}

\* C23: user settings are a last-write-wins map keyed by user id: after
\* save_settings_for_user(u, s) a lookup of u finds s itself (the value that
\* was given to the save, not its JSON text) until the next save for u; a user
\* never saved has None; a save for u changes no other user's settings, no
\* expose row and no processed entry.
C23_SettingsLastWriteWins ==
    [][/\ \A w \in Workers, u \in SettingsUserIds, s \in SettingsValues :
            save_settings_for_user(w, u, s) => StoredSettings(users', u) = s
       /\ SettingsMapKept]_vars

\* user 1 was saved twice with different settings and a lookup returned the
\* later ones, a nested dict with a number, a list, a boolean and None in it;
\* a lookup of user 2 before its first save returned None and user 2 now holds
\* a str; an expose row and a processed entry are stored
C23_Witness ==
    /\ obs["w1"] # None /\ obs["w1"].op = "get_settings_for_user"
    /\ obs["w1"].user_id = 1
    /\ obs["w1"].result = PyDict(<<Item(PyStr("filters"), FilterSettings),
                                   Item(PyStr("1"), PyBool(FALSE))>>)
    /\ \E r \in users : r.id = 1
    /\ \E r \in users : r.id = 2 /\ Is("string", r.settings)
    /\ obs["w2"] # None /\ obs["w2"].op = "get_settings_for_user"
    /\ obs["w2"].user_id = 2 /\ obs["w2"].result = NoSettings
    /\ exposes # {}
    /\ processed[1] > 0

\* worker v is inside a save_expose call for the listing of worker w
SavingSameKey(v, w) ==
    /\ pc[v] \in {"s_append1", "s_sleep", "s_append2", "s_write"}
    /\ cur[v].id = cur[w].id /\ cur[v].crawler = cur[w].crawler

\* C31: when a save_expose call returns and no other call for the same key is
\* running, the created of the key's row is the time of the most recent
\* save_expose call for the key: it is the time of this call, and it is not
\* older than the created the row had, which is the time of an earlier call.
C31_CreatedIsLastSave ==
    [][\A w \in Workers :
         (/\ SaveWrite(w)
          /\ \A v \in Workers \ {w} : ~ SavingSameKey(v, w))
         => \A r \in RowsOfKey(exposes', cur[w].id, cur[w].crawler) :
              /\ r.created = now[w]
              /\ \A old \in RowsOfKey(exposes, cur[w].id, cur[w].crawler) :
                   r.created >= old.created]_vars

====
